---- MODULE Spec2Model ----
(***************************************************************************)
(* Model of the assembler of src/assembler.js: lexer -> parser ->          *)
(* assembler (pass 1 walk over the expressions, then the relocation pass). *)
(* Source text is a sequence of one-character strings.  Indices that the   *)
(* code counts from 0 (cursor, org, expression index) are kept 0-based;    *)
(* the TLA+ sequence element for 0-based index i is seq[i + 1].            *)
(***************************************************************************)
EXTENDS Integers, Sequences, FiniteSets, TLC

VARIABLES
    text,                 \* the inputData handed to lexer()
    pc,                   \* "lexer", "parser", "assembler", "done", "error"
    tokens,               \* outputTokens returned by lexer()
    expressions,          \* outputExpressions returned by parser()
    memory,               \* assembler: memory (cell a is memory[a + 1])
    valuesToRecalculate,  \* assembler: deferred [address, value] entries
    labels,               \* assembler: label table (function name -> org)
    org,                  \* assembler: write cursor
    lineNumber,           \* assembler: line tracker
    exprIdx,              \* assembler: i of the pass 1 loop
    relocIdx,             \* assembler: position of the relocation loop
    error,                \* the Error that reached the caller
    emitLog,              \* history: every write done by emit, in order
    labelLog,             \* history: every label declaration processed
    relocVals             \* history: result of eval() per relocation entry

vars == << text, pc, tokens, expressions, memory, valuesToRecalculate, labels,
           org, lineNumber, exprIdx, relocIdx, error, emitLog, labelLog,
           relocVals >>

-----------------------------------------------------------------------------
(* Token and expression types, src/assembler.js lines 1-8, 19-21, 118-121 *)
T_IDENT == 0
T_NUMBER == 1
T_ARITH_SYMBOL == 2
T_LABEL_MAKER == 3
T_INSTRUCTION == 4
T_DIRECTIVE == 5
T_LINENUM == 6
T_COMMA == 7

D_ORG == 0
D_TIMES == 1
D_DV == 2

E_LABEL == 0
E_INSTRUCTION == 1
E_DIRECTIVE == 2
E_LINENUM == 3

\* Array(1000): the machine capacity
MemSize == 1000

\* the multiplier of assembleInstruction
OpcodeMultiplier == 1000

INSTRUCTIONS ==
    << <<"~">>, <<"T","A","K","E">>, <<"A","D","D">>, <<"S","U","B">>,
       <<"S","A","V","E">>, <<"J","M","P">>, <<"T","S","T">>, <<"I","N","C">>,
       <<"D","E","C">>, <<"N","U","L","L">>, <<"H","L","T">> >>

INSTRUCTION_ARG_LENGTHS == << 0, 1, 1, 1, 1, 1, 1, 1, 1, 1, 0 >>

COMPILER_DIRECTIVES == << <<"O","R","G">>, <<"T","I","M","E","S">>, <<"D","V">> >>

DIRECTIVE_ARG_LENGTHS == << 1, 1, 1 >>

NUMBERS == << "1", "2", "3", "4", "5", "6", "7", "8", "9", "0" >>

SYMBOLS == << "+", "-", "*", "(", ")" >>

UpperLetters ==
    << "A","B","C","D","E","F","G","H","I","J","K","L","M",
       "N","O","P","Q","R","S","T","U","V","W","X","Y","Z" >>

LowerLetters ==
    << "a","b","c","d","e","f","g","h","i","j","k","l","m",
       "n","o","p","q","r","s","t","u","v","w","x","y","z" >>

\* String.prototype.includes for a one-character argument
Includes(str, ch) == \E i \in 1..Len(str) : str[i] = ch

\* Array.prototype.indexOf: 0-based index of the first match, or -1
IndexOf(arr, x) ==
    IF \E i \in 1..Len(arr) : arr[i] = x
    THEN (CHOOSE i \in 1..Len(arr) : arr[i] = x /\ \A j \in 1..(i-1) : arr[j] # x) - 1
    ELSE -1

\* String.prototype.toUpperCase on one character
ToUpperCase(ch) ==
    IF Includes(LowerLetters, ch)
    THEN UpperLetters[IndexOf(LowerLetters, ch) + 1]
    ELSE ch

\* charCode >= 0x41 && charCode <= 0x5A
isLetter(z) == Includes(UpperLetters, z)

isLetterOrNumber(e) == isLetter(e) \/ Includes(NUMBERS, e)

\* value of a decimal digit character
DigitValue(ch) == IF ch = "0" THEN 0 ELSE IndexOf(NUMBERS, ch) + 1

RECURSIVE ParseInt(_)
\* parseInt of a non-empty run of decimal digits
ParseInt(digits) ==
    IF Len(digits) = 0 THEN 0
    ELSE 10 * ParseInt(SubSeq(digits, 1, Len(digits) - 1)) + DigitValue(digits[Len(digits)])

RECURSIVE NumberToString(_)
\* Number.prototype.toString of a non-negative integer
NumberToString(n) ==
    IF n < 10 THEN << (IF n = 0 THEN "0" ELSE NUMBERS[n]) >>
    ELSE NumberToString(n \div 10) \o << (IF n % 10 = 0 THEN "0" ELSE NUMBERS[n % 10]) >>

-----------------------------------------------------------------------------
(* Tokens: [type, num, str].  num carries a T_NUMBER value, a mnemonic or  *)
(* directive index, or a line number; str carries an identifier or an      *)
(* arithmetic symbol.  T_LABEL_MAKER and T_COMMA carry null.               *)
Token(type, num, str) == [type |-> type, num |-> num, str |-> str]

\* the four conditions collectWhile is called with
CondHolds(condition, ch) ==
    CASE condition = "isNumber" -> Includes(NUMBERS, ch)
      [] condition = "isLetterOrNumber" -> isLetterOrNumber(ch)
      [] condition = "isLetter" -> isLetter(ch)
      [] condition = "notNewline" -> ch # "\n"

RECURSIVE collectWhile(_, _, _)
\* Returns the cursor after the collected run; the run itself is
\* SubSeq(inputData, cursor + 1, result).  Characters are read raw (charAt),
\* not through peek().  lexer appends "\n", which ends every run before the
\* end of inputData is reached.
collectWhile(condition, inputData, cursor) ==
    IF cursor < Len(inputData) /\ CondHolds(condition, inputData[cursor + 1])
    THEN collectWhile(condition, inputData, cursor + 1)
    ELSE cursor

LexError(kind, line) ==
    [ok |-> FALSE, tokens |-> << >>, kind |-> kind, line |-> line]

RECURSIVE LexerLoop(_, _, _, _)
\* the while loop of lexer; char is next(), i.e. peek() upper-cased
LexerLoop(inputData, cursor, line, outputTokens) ==
    IF ~(cursor < Len(inputData))
    THEN [ok |-> TRUE, tokens |-> outputTokens, kind |-> "", line |-> line]
    ELSE
      LET char == ToUpperCase(inputData[cursor + 1])
          c1 == cursor + 1
      IN
      IF char = " " THEN LexerLoop(inputData, c1, line, outputTokens)
      ELSE IF char = "\n"
      THEN LexerLoop(inputData, c1, line + 1,
                     Append(outputTokens, Token(T_LINENUM, line + 1, << >>)))
      ELSE IF Includes(NUMBERS, char)
      THEN LET c2 == collectWhile("isNumber", inputData, c1)
           IN LexerLoop(inputData, c2, line,
                  Append(outputTokens,
                         Token(T_NUMBER,
                               ParseInt(<<char>> \o SubSeq(inputData, c1 + 1, c2)),
                               << >>)))
      ELSE IF Includes(SYMBOLS, char)
      THEN LexerLoop(inputData, c1, line,
                     Append(outputTokens, Token(T_ARITH_SYMBOL, 0, <<char>>)))
      ELSE IF isLetter(char)
      THEN LET c2 == collectWhile("isLetterOrNumber", inputData, c1)
               sequence == <<char>> \o SubSeq(inputData, c1 + 1, c2)
               instructionIndex == IndexOf(INSTRUCTIONS, sequence)
           IN LexerLoop(inputData, c2, line,
                  Append(outputTokens,
                         IF instructionIndex = -1
                         THEN Token(T_IDENT, 0, sequence)
                         ELSE Token(T_INSTRUCTION, instructionIndex, << >>)))
      ELSE IF char = ":"
      THEN LexerLoop(inputData, c1, line,
                     Append(outputTokens, Token(T_LABEL_MAKER, 0, << >>)))
      ELSE IF char = "#"
      THEN LET c2 == collectWhile("isLetter", inputData, c1)
               directive == SubSeq(inputData, c1 + 1, c2)
               index == IndexOf(COMPILER_DIRECTIVES, directive)
           IN IF index = -1
              THEN LexError("No such compiler directive", line)
              ELSE LexerLoop(inputData, c2, line,
                       Append(outputTokens, Token(T_DIRECTIVE, index, << >>)))
      ELSE IF char = ","
      THEN LexerLoop(inputData, c1, line,
                     Append(outputTokens, Token(T_COMMA, 0, << >>)))
      ELSE IF char = ";"
      THEN LexerLoop(inputData, collectWhile("notNewline", inputData, c1), line,
                     outputTokens)
      ELSE LexError("Unexpected symbol found while lexing", line)

\* lexer(inputData): appends "\n", starts at line 1 with [T_LINENUM, 1]
lexer(inputData) ==
    LexerLoop(inputData \o <<"\n">>, 0, 1, << Token(T_LINENUM, 1, << >>) >>)

-----------------------------------------------------------------------------
(* Expressions: [type, num, str, args].  num is the line number of an      *)
(* E_LINENUM or the mnemonic / directive index; str is the name of an      *)
(* E_LABEL; args is the list of comma separated token groups.              *)
Expression(type, num, str, args) ==
    [type |-> type, num |-> num, str |-> str, args |-> args]

RECURSIVE CollectLoop_StopsAtInstruction(_, _, _, _)
\* variant: collection also stops at a mnemonic, leaving it for the main loop
CollectLoop_StopsAtInstruction(tokenStream, cursor, buffer, output) ==
    IF ~(cursor < Len(tokenStream))
    THEN [ok |-> FALSE, cursor |-> cursor, buffer |-> buffer, output |-> output]
    ELSE IF tokenStream[cursor + 1].type \notin {T_LINENUM, T_INSTRUCTION}
    THEN LET token == tokenStream[cursor + 1]
         IN IF token.type = T_COMMA
            THEN CollectLoop_StopsAtInstruction(tokenStream, cursor + 1, << >>,
                                                Append(output, buffer))
            ELSE CollectLoop_StopsAtInstruction(tokenStream, cursor + 1,
                                                Append(buffer, token), output)
    ELSE [ok |-> TRUE, cursor |-> cursor, buffer |-> buffer, output |-> output]

RECURSIVE CollectLoop(_, _, _, _)
\* the while loop of collectCommaSeparated.  Reading tokenStream[cursor]
\* past the end of the stream is a TypeError.
CollectLoop(tokenStream, cursor, buffer, output) ==
    IF ~(cursor < Len(tokenStream))
    THEN [ok |-> FALSE, cursor |-> cursor, buffer |-> buffer, output |-> output]
    ELSE IF tokenStream[cursor + 1].type # T_LINENUM
    THEN LET token == tokenStream[cursor + 1]
         IN IF token.type = T_COMMA
            THEN CollectLoop(tokenStream, cursor + 1, << >>, Append(output, buffer))
            ELSE CollectLoop(tokenStream, cursor + 1, Append(buffer, token), output)
    ELSE [ok |-> TRUE, cursor |-> cursor, buffer |-> buffer, output |-> output]

\* collectCommaSeparated(name, count), started at cursor
collectCommaSeparated(tokenStream, cursor, count) ==
    LET r == CollectLoop(tokenStream, cursor, << >>, << >>)
        output == IF Len(r.buffer) # 0 THEN Append(r.output, r.buffer) ELSE r.output
    IN IF ~r.ok
       THEN [ok |-> FALSE, kind |-> "TypeError", cursor |-> r.cursor, output |-> << >>]
       ELSE IF count # Len(output)
       THEN [ok |-> FALSE, kind |-> "Invalid number of arguments",
             cursor |-> r.cursor, output |-> << >>]
       ELSE [ok |-> TRUE, kind |-> "", cursor |-> r.cursor, output |-> output]

\* the catch of parser: every failure is rethrown with the parser's lineNumber
ParseError(kind, line) ==
    [ok |-> FALSE, expressions |-> << >>, kind |-> kind, line |-> line]

RECURSIVE ParserLoop(_, _, _, _)
\* the while loop of parser, with expectAnyOf inlined
ParserLoop(tokenStream, cursor, line, outputExpressions) ==
    IF ~(cursor < Len(tokenStream))
    THEN [ok |-> TRUE, expressions |-> outputExpressions, kind |-> "", line |-> line]
    ELSE
      LET tok == tokenStream[cursor + 1]
          c1 == cursor + 1
      IN
      IF tok.type \notin {T_DIRECTIVE, T_INSTRUCTION, T_IDENT, T_LINENUM}
      THEN ParseError("Expected token of type", line)
      ELSE IF tok.type = T_LINENUM
      THEN ParserLoop(tokenStream, c1, tok.num,
                      Append(outputExpressions, Expression(E_LINENUM, tok.num, << >>, << >>)))
      ELSE IF tok.type = T_IDENT
      THEN IF ~(c1 < Len(tokenStream))
           THEN ParseError("TypeError", line)
           ELSE IF tokenStream[c1 + 1].type # T_LABEL_MAKER
           THEN ParseError("Expected token of type", line)
           ELSE ParserLoop(tokenStream, c1 + 1, line,
                           Append(outputExpressions, Expression(E_LABEL, 0, tok.str, << >>)))
      ELSE IF tok.type = T_DIRECTIVE
      THEN LET r == collectCommaSeparated(tokenStream, c1, DIRECTIVE_ARG_LENGTHS[tok.num + 1])
           IN IF ~r.ok THEN ParseError(r.kind, line)
              ELSE ParserLoop(tokenStream, r.cursor, line,
                       Append(outputExpressions,
                              Expression(E_DIRECTIVE, tok.num, << >>, r.output)))
      ELSE LET r == collectCommaSeparated(tokenStream, c1, INSTRUCTION_ARG_LENGTHS[tok.num + 1])
           IN IF ~r.ok THEN ParseError(r.kind, line)
              ELSE ParserLoop(tokenStream, r.cursor, line,
                       Append(outputExpressions,
                              Expression(E_INSTRUCTION, tok.num, << >>, r.output)))

\* parser(tokenStream): lineNumber starts at -1
parser(tokenStream) == ParserLoop(tokenStream, 0, -1, << >>)

-----------------------------------------------------------------------------
(* The relocation pass evaluates value.map(e => e[1].toString()).join('')  *)
(* with eval() inside with(labels).  JsEval models eval on the strings the *)
(* join can produce from decimal numbers, identifiers and + - * ( ).       *)
(* Strings that hold "++", "--" or "**" (JavaScript's update and power     *)
(* operators) or a multi-digit literal starting with 0 (legacy octal) are  *)
(* outside the modelled fragment: JsEval answers kind "Unmodelled" and the *)
(* relocation step is not taken; Lines below holds no such source.         *)
(* Identifiers that are not labels are taken to be unbound in the          *)
(* enclosing scopes (a ReferenceError).                                    *)

\* e[1].toString() of one token; null.toString() is a TypeError
TokenToString(e) ==
    CASE e.type \in {T_NUMBER, T_INSTRUCTION, T_DIRECTIVE, T_LINENUM} ->
            [ok |-> TRUE, str |-> NumberToString(e.num)]
      [] e.type \in {T_IDENT, T_ARITH_SYMBOL} -> [ok |-> TRUE, str |-> e.str]
      [] OTHER -> [ok |-> FALSE, str |-> << >>]

RECURSIVE JoinTokens(_)
\* value.map(e => e[1].toString()).join('')
JoinTokens(value) ==
    IF Len(value) = 0 THEN [ok |-> TRUE, str |-> << >>]
    ELSE LET h == TokenToString(value[1])
             t == JoinTokens(Tail(value))
         IN IF h.ok /\ t.ok THEN [ok |-> TRUE, str |-> h.str \o t.str]
            ELSE [ok |-> FALSE, str |-> << >>]

RECURSIVE ScanRun(_, _, _)
\* last position of the run of characters satisfying condition that starts
\* at position p (p - 1 when the run is empty)
ScanRun(condition, src, p) ==
    IF p <= Len(src) /\ CondHolds(condition, src[p])
    THEN ScanRun(condition, src, p + 1)
    ELSE p - 1

InFragment(src) ==
    /\ \A i \in 1..(Len(src) - 1) :
          ~(src[i] = src[i + 1] /\ src[i] \in {"+", "-", "*"})
    /\ \A i \in 1..(Len(src) - 1) :
          ~(/\ src[i] = "0"
            /\ Includes(NUMBERS, src[i + 1])
            /\ (i = 1 \/ ~isLetterOrNumber(src[i - 1])))

\* parse results: pos is the next unread position, syn a syntax error,
\* rt the first run-time error in evaluation order ("" for none)
EvalOk(pos, val) == [pos |-> pos, val |-> val, syn |-> FALSE, rt |-> ""]
EvalSyn(pos) == [pos |-> pos, val |-> 0, syn |-> TRUE, rt |-> ""]
FirstRt(a, b) == IF a # "" THEN a ELSE b

RECURSIVE EvalAdditive(_, _, _)
RECURSIVE EvalAdditiveTail(_, _, _)
RECURSIVE EvalMultiplicative(_, _, _)
RECURSIVE EvalMultiplicativeTail(_, _, _)
RECURSIVE EvalUnary(_, _, _)
RECURSIVE EvalCallTail(_, _, _)
RECURSIVE EvalPrimary(_, _, _)

EvalPrimary(src, p, lbl) ==
    IF p > Len(src) THEN EvalSyn(p)
    ELSE IF Includes(NUMBERS, src[p])
    THEN LET q == ScanRun("isNumber", src, p)
         IN IF q < Len(src) /\ isLetter(src[q + 1])
            THEN EvalSyn(q + 1)
            ELSE EvalOk(q + 1, ParseInt(SubSeq(src, p, q)))
    ELSE IF isLetter(src[p])
    THEN LET q == ScanRun("isLetterOrNumber", src, p)
             name == SubSeq(src, p, q)
         IN IF name \in DOMAIN lbl
            THEN EvalOk(q + 1, lbl[name])
            ELSE [pos |-> q + 1, val |-> 0, syn |-> FALSE, rt |-> "ReferenceError"]
    ELSE IF src[p] = "("
    THEN LET r == EvalAdditive(src, p + 1, lbl)
         IN IF r.syn THEN r
            ELSE IF r.pos <= Len(src) /\ src[r.pos] = ")"
            THEN [r EXCEPT !.pos = @ + 1]
            ELSE EvalSyn(r.pos)
    ELSE EvalSyn(p)

\* a primary followed by "(": a call of something that is not a function
EvalCallTail(src, acc, lbl) ==
    IF acc.syn \/ acc.pos > Len(src) \/ src[acc.pos] # "(" THEN acc
    ELSE IF acc.pos < Len(src) /\ src[acc.pos + 1] = ")"
    THEN EvalCallTail(src, [acc EXCEPT !.pos = @ + 2, !.rt = FirstRt(@, "TypeError")], lbl)
    ELSE LET r == EvalAdditive(src, acc.pos + 1, lbl)
         IN IF r.syn THEN r
            ELSE IF r.pos <= Len(src) /\ src[r.pos] = ")"
            THEN EvalCallTail(src,
                     [pos |-> r.pos + 1, val |-> 0, syn |-> FALSE,
                      rt |-> FirstRt(acc.rt, FirstRt(r.rt, "TypeError"))], lbl)
            ELSE EvalSyn(r.pos)

EvalUnary(src, p, lbl) ==
    IF p <= Len(src) /\ src[p] \in {"+", "-"}
    THEN LET r == EvalUnary(src, p + 1, lbl)
         IN IF r.syn THEN r
            ELSE [r EXCEPT !.val = IF src[p] = "-" THEN 0 - @ ELSE @]
    ELSE EvalCallTail(src, EvalPrimary(src, p, lbl), lbl)

EvalMultiplicativeTail(src, acc, lbl) ==
    IF acc.syn \/ acc.pos > Len(src) \/ src[acc.pos] # "*" THEN acc
    ELSE LET r == EvalUnary(src, acc.pos + 1, lbl)
         IN IF r.syn THEN r
            ELSE EvalMultiplicativeTail(src,
                     [pos |-> r.pos, val |-> acc.val * r.val, syn |-> FALSE,
                      rt |-> FirstRt(acc.rt, r.rt)], lbl)

EvalMultiplicative(src, p, lbl) ==
    EvalMultiplicativeTail(src, EvalUnary(src, p, lbl), lbl)

EvalAdditiveTail(src, acc, lbl) ==
    IF acc.syn \/ acc.pos > Len(src) \/ src[acc.pos] \notin {"+", "-"} THEN acc
    ELSE LET r == EvalMultiplicative(src, acc.pos + 1, lbl)
         IN IF r.syn THEN r
            ELSE EvalAdditiveTail(src,
                     [pos |-> r.pos,
                      val |-> IF src[acc.pos] = "+" THEN acc.val + r.val
                                                    ELSE acc.val - r.val,
                      syn |-> FALSE, rt |-> FirstRt(acc.rt, r.rt)], lbl)

EvalAdditive(src, p, lbl) ==
    EvalAdditiveTail(src, EvalMultiplicative(src, p, lbl), lbl)

\* eval(src) inside with(lbl): a value, undefined (the empty program), or
\* the error thrown
JsEval(src, lbl) ==
    IF ~InFragment(src) THEN [kind |-> "Unmodelled", val |-> 0]
    ELSE IF Len(src) = 0 THEN [kind |-> "undefined", val |-> 0]
    ELSE LET r == EvalAdditive(src, 1, lbl)
         IN IF r.syn \/ r.pos <= Len(src) THEN [kind |-> "SyntaxError", val |-> 0]
            ELSE IF r.rt # "" THEN [kind |-> r.rt, val |-> 0]
            ELSE [kind |-> "value", val |-> r.val]

RECURSIVE BitOr(_, _)
\* a | b on two's complement integers.  Every value the bounded sources
\* produce is within 32 bits, where ToInt32 is the identity.
BitOr(a, b) ==
    IF a = 0 THEN b
    ELSE IF b = 0 THEN a
    ELSE IF a = -1 \/ b = -1 THEN -1
    ELSE 2 * BitOr(a \div 2, b \div 2) + (IF a % 2 = 1 \/ b % 2 = 1 THEN 1 ELSE 0)

-----------------------------------------------------------------------------
(* assembler.  The closure state of one call is threaded through the       *)
(* helpers as a record st; err = "" while nothing has been thrown.         *)

\* assembleInstruction(instr): [base, recalc]; recalc is instr[1][0], which
\* is undefined for an empty argument list
assembleInstruction(instr) ==
    [base |-> OpcodeMultiplier * instr.num,
     hasRecalc |-> Len(instr.args) > 0,
     recalc |-> IF Len(instr.args) > 0 THEN instr.args[1] ELSE << >>]

\* emit(number): the guard is org > memory.length; a write at
\* org = memory.length grows the array by one cell
emit(st, number) ==
    IF st.org > Len(st.memory)
    THEN [st EXCEPT !.err = "Emitting outside of memory!"]
    ELSE [st EXCEPT
            !.memory = IF st.org = Len(st.memory)
                       THEN Append(st.memory, number)
                       ELSE [st.memory EXCEPT ![st.org + 1] = number],
            !.org = st.org + 1,
            !.emitLog = Append(@, [address |-> st.org, number |-> number])]

tokenStreamAsNumber(ts) ==
    IF Len(ts) # 1 \/ ts[1].type # T_NUMBER
    THEN [ok |-> FALSE, val |-> 0]
    ELSE [ok |-> TRUE, val |-> ts[1].num]

\* labels[contents] = org
DeclareLabel(lbl, contents, o) ==
    [n \in (DOMAIN lbl) \cup {contents} |-> IF n = contents THEN o ELSE lbl[n]]

RECURSIVE emitExpression(_, _, _)
RECURSIVE TimesLoop(_, _, _, _)

\* for(let j = 0; j < tokenStreamAsNumber(directiveArgs[0]); j++)
\*     emitExpression(index + 1);
TimesLoop(exprs, st, index, j) ==
    LET n == tokenStreamAsNumber(exprs[index + 1].args[1])
    IN IF ~n.ok THEN [st EXCEPT !.err = "cannot be expressed as a number"]
       ELSE IF j < n.val
       THEN LET r == emitExpression(exprs, st, index + 1)
            IN IF r.st.err # "" THEN r.st
               ELSE TimesLoop(exprs, r.st, index, j + 1)
       ELSE st

\* emitExpression(index): returns the state after it and the next index.
\* expressions[index] past the end is undefined; destructuring it throws.
emitExpression(exprs, st, index) ==
    IF ~(index < Len(exprs))
    THEN [st |-> [st EXCEPT !.err = "TypeError"], next |-> index]
    ELSE
      LET e == exprs[index + 1] IN
      CASE e.type = E_LINENUM ->
             [st |-> [st EXCEPT !.lineNumber = e.num], next |-> index + 1]
        [] e.type = E_DIRECTIVE /\ e.num = D_ORG ->
             LET n == tokenStreamAsNumber(e.args[1])
             IN IF ~n.ok
                THEN [st |-> [st EXCEPT !.err = "cannot be expressed as a number"],
                      next |-> index]
                ELSE [st |-> [st EXCEPT !.org = n.val], next |-> index + 1]
        [] e.type = E_DIRECTIVE /\ e.num = D_TIMES ->
             [st |-> TimesLoop(exprs, st, index, 0), next |-> index + 2]
        [] e.type = E_DIRECTIVE /\ e.num = D_DV ->
             [st |-> emit([st EXCEPT !.valuesToRecalculate =
                               Append(@, [address |-> st.org, value |-> e.args[1]])],
                          0),
              next |-> index + 1]
        [] e.type = E_INSTRUCTION ->
             LET a == assembleInstruction(e)
                 s1 == IF a.hasRecalc
                       THEN [st EXCEPT !.valuesToRecalculate =
                               Append(@, [address |-> st.org, value |-> a.recalc])]
                       ELSE st
             IN [st |-> emit(s1, a.base), next |-> index + 1]
        [] e.type = E_LABEL ->
             [st |-> [st EXCEPT
                        !.labels = DeclareLabel(@, e.str, st.org),
                        !.labelLog = Append(@, [name |-> e.str, org |-> st.org])],
              next |-> index + 1]

\* variant: the pass 1 loop stops one expression early
Pass1Running_StopsEarly(i, exprs) == i + 1 < Len(exprs)

\* the condition of the pass 1 loop: i < expressions.length
Pass1Running(i, exprs) == i < Len(exprs)

\* evaluated of one relocation entry: the join, then eval under with(labels)
EvaluateEntry(entry, lbl) ==
    LET j == JoinTokens(entry.value)
    IN IF ~j.ok THEN [kind |-> "TypeError", val |-> 0]
       ELSE JsEval(j.str, lbl)

\* variant: the relocation is merged into the cell after the recorded one
ApplyRelocation_NextCell(mem, address, evaluated) ==
    [mem EXCEPT ![IF address + 2 > Len(mem) THEN 1 ELSE address + 2] =
        BitOr(@, IF evaluated.kind = "value" THEN evaluated.val ELSE 0)]

\* memory[address] |= evaluated  (undefined converts to 0)
ApplyRelocation(mem, address, evaluated) ==
    [mem EXCEPT ![address + 1] =
        BitOr(@, IF evaluated.kind = "value" THEN evaluated.val ELSE 0)]

-----------------------------------------------------------------------------
(* Source texts: up to MaxLines lines, each drawn from Lines, joined by    *)
(* newlines.                                                               *)
MaxLines == 2

Lines ==
    {
      << "H", "L", "T" >>,                                       \* HLT
      << "T", "A", "K", "E", " ", "5" >>,                        \* TAKE 5
      << "T", "A", "K", "E", " ", "8" >>,                        \* TAKE 8
      << "t", "a", "k", "e", " ", "5" >>,                        \* take 5
      << "A", "D", "D", " ", "L", " ", ";", "c" >>,              \* ADD L ;c
      << "L", ":" >>,                                            \* L:
      << "#", "D", "V", " ", "L" >>,                             \* #DV L
      << "L", ":", " ", "J", "M", "P", " ", "2", "*", "(", "L", "+", "1", ")" >>, \* L: JMP 2*(L+1)
      << "#", "O", "R", "G", " ", "1", "0", "0", "0" >>,         \* #ORG 1000
      << "#", "O", "R", "G", " ", "1", "0", "0", "1" >>,         \* #ORG 1001
      << "#", "O", "R", "G", " ", "2" >>,                        \* #ORG 2
      << "#", "O", "R", "G", " ", "0" >>,                        \* #ORG 0
      << "#", "T", "I", "M", "E", "S", " ", "2" >>,              \* #TIMES 2
      << "#", "T", "I", "M", "E", "S", " ", "2", " ", "H", "L", "T" >>, \* #TIMES 2 HLT
      << "T", "A", "K", "E", " ", "," >>,                        \* TAKE ,
      << "T", "A", "K", "E", " ", ",", "5" >>,                   \* TAKE ,5
      << "T", "A", "K", "E", " ", "X" >>,                        \* TAKE X
      << "T", "A", "K", "E", " ", "5", "+" >>,                   \* TAKE 5+
      << "#", "F", "O", "O", " ", "1" >>,                        \* #FOO 1
      << "?" >>,                                                 \* ?
      << "L" >>                                                 \* L
    }

RECURSIVE JoinLines(_)
JoinLines(ls) ==
    IF Len(ls) = 0 THEN << >>
    ELSE IF Len(ls) = 1 THEN ls[1]
    ELSE ls[1] \o <<"\n">> \o JoinLines(Tail(ls))

Texts == { JoinLines(ls) : ls \in UNION { [1..n -> Lines] : n \in 0..MaxLines } }

NoError == [stage |-> "", kind |-> "", hasLine |-> FALSE, line |-> 0]

Init ==
    /\ text \in Texts
    /\ pc = "lexer"
    /\ tokens = << >>
    /\ expressions = << >>
    /\ memory = [a \in 1..MemSize |-> 0]
    /\ valuesToRecalculate = << >>
    /\ labels = << >>
    /\ org = 0
    /\ lineNumber = -1
    /\ exprIdx = 0
    /\ relocIdx = 0
    /\ error = NoError
    /\ emitLog = << >>
    /\ labelLog = << >>
    /\ relocVals = << >>

asmVars == << memory, valuesToRecalculate, labels, org, lineNumber, exprIdx,
              relocIdx, emitLog, labelLog, relocVals >>

\* lexer(text); its two throws name the line in their message
Lexer ==
    /\ pc = "lexer"
    /\ LET r == lexer(text)
       IN IF r.ok
          THEN /\ tokens' = r.tokens
               /\ pc' = "parser"
               /\ error' = error
          ELSE /\ tokens' = tokens
               /\ pc' = "error"
               /\ error' = [stage |-> "lexer", kind |-> r.kind,
                            hasLine |-> TRUE, line |-> r.line]
    /\ UNCHANGED << text, expressions, asmVars >>

\* parser(tokens); the catch rethrows with "Error while parsing line N"
Parser ==
    /\ pc = "parser"
    /\ LET r == parser(tokens)
       IN IF r.ok
          THEN /\ expressions' = r.expressions
               /\ pc' = "assembler"
               /\ error' = error
          ELSE /\ expressions' = expressions
               /\ pc' = "error"
               /\ error' = [stage |-> "parser", kind |-> r.kind,
                            hasLine |-> TRUE, line |-> r.line]
    /\ UNCHANGED << text, tokens, asmVars >>

\* one iteration of the pass 1 loop: i = emitExpression(i); the catch
\* rethrows with "Error while assembling line N"
AssemblerPass1 ==
    /\ pc = "assembler"
    /\ Pass1Running(exprIdx, expressions)
    /\ LET st == [memory |-> memory, valuesToRecalculate |-> valuesToRecalculate,
                  labels |-> labels, org |-> org, lineNumber |-> lineNumber,
                  emitLog |-> emitLog, labelLog |-> labelLog, err |-> ""]
           r == emitExpression(expressions, st, exprIdx)
       IN /\ memory' = r.st.memory
          /\ valuesToRecalculate' = r.st.valuesToRecalculate
          /\ labels' = r.st.labels
          /\ org' = r.st.org
          /\ lineNumber' = r.st.lineNumber
          /\ emitLog' = r.st.emitLog
          /\ labelLog' = r.st.labelLog
          /\ IF r.st.err = ""
             THEN /\ exprIdx' = r.next
                  /\ pc' = pc
                  /\ error' = error
             ELSE /\ exprIdx' = exprIdx
                  /\ pc' = "error"
                  /\ error' = [stage |-> "assembler", kind |-> r.st.err,
                               hasLine |-> TRUE, line |-> r.st.lineNumber]
    /\ UNCHANGED << text, tokens, expressions, relocIdx, relocVals >>

\* one iteration of the relocation loop; it runs outside the try, so what
\* eval or the join throws reaches the caller as it is
AssemblerRelocate ==
    /\ pc = "assembler"
    /\ ~Pass1Running(exprIdx, expressions)
    /\ relocIdx < Len(valuesToRecalculate)
    /\ LET entry == valuesToRecalculate[relocIdx + 1]
           evaluated == EvaluateEntry(entry, labels)
       IN /\ evaluated.kind # "Unmodelled"
          /\ IF evaluated.kind \in {"value", "undefined"}
             THEN /\ memory' = ApplyRelocation(memory, entry.address, evaluated)
                  /\ relocIdx' = relocIdx + 1
                  /\ relocVals' = Append(relocVals, evaluated)
                  /\ pc' = pc
                  /\ error' = error
             ELSE /\ memory' = memory
                  /\ relocIdx' = relocIdx
                  /\ relocVals' = relocVals
                  /\ pc' = "error"
                  /\ error' = [stage |-> "relocation", kind |-> evaluated.kind,
                               hasLine |-> FALSE, line |-> 0]
    /\ UNCHANGED << text, tokens, expressions, valuesToRecalculate, labels, org,
                    lineNumber, exprIdx, emitLog, labelLog >>

\* return memory
AssemblerReturn ==
    /\ pc = "assembler"
    /\ ~Pass1Running(exprIdx, expressions)
    /\ ~(relocIdx < Len(valuesToRecalculate))
    /\ pc' = "done"
    /\ UNCHANGED << text, tokens, expressions, asmVars, error >>

Next ==
    \/ Lexer
    \/ Parser
    \/ AssemblerPass1
    \/ AssemblerRelocate
    \/ AssemblerReturn

Spec == Init /\ [][Next]_vars

-----------------------------------------------------------------------------
(* Helpers for stating the properties *)

\* the text with every letter upper-cased
UpperText(t) == [i \in 1..Len(t) |-> ToUpperCase(t[i])]

\* addresses emit has written so far
EmittedAddresses(log) == { log[i].address : i \in 1..Len(log) }

\* positions of the emit writes that went to address a
WritesTo(log, a) == { i \in 1..Len(log) : log[i].address = a }

\* the assembler holds the parser's result
Parsed == pc \in {"assembler", "done"} \/ (pc = "error" /\ error.stage \in {"assembler", "relocation"})

IsEmitter(e) ==
    e.type = E_INSTRUCTION \/ (e.type = E_DIRECTIVE /\ e.num = D_DV)

IsTimes(e) == e.type = E_DIRECTIVE /\ e.num = D_TIMES

IsOrg(e) == e.type = E_DIRECTIVE /\ e.num = D_ORG

\* 0-based index of the first expression after index i that is no
\* line-marker, or -1
NextNonLine(exprs, i) ==
    IF \E j \in (i + 2)..Len(exprs) : exprs[j].type # E_LINENUM
    THEN (CHOOSE j \in (i + 2)..Len(exprs) :
             /\ exprs[j].type # E_LINENUM
             /\ \A k \in (i + 2)..(j - 1) : exprs[k].type = E_LINENUM) - 1
    ELSE -1

\* the origin recorded by the last processed declaration of name
LastDeclared(log, name) ==
    LET D == { i \in 1..Len(log) : log[i].name = name }
    IN log[CHOOSE i \in D : \A k \in D : k <= i].org

IsSingleIdent(value) == Len(value) = 1 /\ value[1].type = T_IDENT

TextTake5Hlt == << "T", "A", "K", "E", " ", "5", "\n", "H", "L", "T" >>

-----------------------------------------------------------------------------
\* C1: whenever assembler returns normally, the returned memory image has
\* length exactly 1000, whatever was emitted and wherever #ORG pointed.
C1_ImageLength == pc = "done" => Len(memory) = MemSize

\* C2: every attempt of emit to write at an address >= 1000 fails with the
\* capacity error: no cell at index >= 1000 is ever written (the image never
\* grows), and an origin >= 1000 at an emit ends in the error, not in a
\* returned image.
C2_CapacityError ==
    /\ Len(memory) = MemSize
    /\ \A i \in 1..Len(emitLog) : emitLog[i].address < MemSize

\* C3: an instruction with mnemonic index k and an operand, emitted once at
\* an address a nothing else writes, whose operand evaluates to v in 0..999,
\* leaves memory[a] = 1000 * k + v; TAKE 5 / HLT gives 1005, 10000, then 0.
C3_OpcodeOperand ==
    pc = "done" =>
      /\ \A j \in 1..Len(valuesToRecalculate) :
            LET a == valuesToRecalculate[j].address
                W == WritesTo(emitLog, a)
                v == relocVals[j]
            IN (/\ Cardinality(W) = 1
                /\ emitLog[CHOOSE i \in W : TRUE].number > 0
                /\ v.kind = "value"
                /\ v.val \in 0..(OpcodeMultiplier - 1))
               => memory[a + 1] = emitLog[CHOOSE i \in W : TRUE].number + v.val
      /\ text = TextTake5Hlt =>
            /\ memory[1] = 1005
            /\ memory[2] = 10000
            /\ \A a \in 3..Len(memory) : memory[a] = 0

\* C4: no relocation entry is evaluated before pass 1 has processed every
\* expression, so every declared label is in the table by then; an operand
\* or #DV argument that is a single label name evaluates to the origin
\* recorded by the (last) declaration of that label, also when the
\* declaration comes later in the source, and a #DV cell written once holds
\* exactly that origin in the returned image.
C4_TwoPass ==
    /\ (Len(relocVals) > 0 \/ (pc = "error" /\ error.stage = "relocation") \/ pc = "done")
          => /\ exprIdx >= Len(expressions)
             /\ \A i \in 1..Len(expressions) :
                   expressions[i].type = E_LABEL => expressions[i].str \in DOMAIN labels
    /\ \A j \in 1..Len(relocVals) :
          LET entry == valuesToRecalculate[j]
          IN IsSingleIdent(entry.value) =>
                /\ relocVals[j].kind = "value"
                /\ relocVals[j].val = LastDeclared(labelLog, entry.value[1].str)
    /\ pc = "done" =>
          \A j \in 1..Len(valuesToRecalculate) :
             LET entry == valuesToRecalculate[j]
                 W == WritesTo(emitLog, entry.address)
             IN (/\ IsSingleIdent(entry.value)
                 /\ Cardinality(W) = 1
                 /\ emitLog[CHOOSE i \in W : TRUE].number = 0)
                => memory[entry.address + 1] = LastDeclared(labelLog, entry.value[1].str)

\* a forward reference was resolved: a returned image in which a cell whose
\* argument is a label name holds bits of an origin declared after that cell
C4_Witness ==
    /\ pc = "done"
    /\ \E j \in 1..Len(valuesToRecalculate) :
          LET entry == valuesToRecalculate[j]
          IN /\ IsSingleIdent(entry.value)
             /\ \E d \in 1..Len(labelLog) :
                   /\ labelLog[d].name = entry.value[1].str
                   /\ labelLog[d].org > entry.address
             /\ relocVals[j].val = labels[entry.value[1].str]
             /\ relocVals[j].val > entry.address
             /\ memory[entry.address + 1] = relocVals[j].val

\* C5: a #TIMES directive with literal count N followed by an instruction
\* writes N instruction words from the origin in force, advances the origin
\* by N and carries the walk past the repeated instruction.
C5_TimesRepeats ==
    [][ (/\ pc = "assembler"
         /\ exprIdx < Len(expressions)
         /\ IsTimes(expressions[exprIdx + 1])
         /\ tokenStreamAsNumber(expressions[exprIdx + 1].args[1]).ok
         /\ NextNonLine(expressions, exprIdx) >= 0
         /\ expressions[NextNonLine(expressions, exprIdx) + 1].type = E_INSTRUCTION
         /\ pc' = "assembler")
        => LET N == tokenStreamAsNumber(expressions[exprIdx + 1].args[1]).val
               instr == expressions[NextNonLine(expressions, exprIdx) + 1]
           IN /\ org' = org + N
              /\ Len(emitLog') = Len(emitLog) + N
              /\ \A n \in 1..N :
                    /\ emitLog'[Len(emitLog) + n].address = org + n - 1
                    /\ emitLog'[Len(emitLog) + n].number = OpcodeMultiplier * instr.num
              /\ exprIdx' = NextNonLine(expressions, exprIdx) + 1
      ]_vars

\* C6: #ORG A sets the origin to A and changes no cell; a write goes to the
\* origin in force and changes no other cell; after every step (pass 1 or
\* relocation) each cell whose address emit never targeted is 0, so it is
\* 0 in every returned image.
C6_OrgFrame ==
    [][ LET emitted == EmittedAddresses(emitLog')
        IN /\ \A a \in 1..Len(memory') : (a - 1) \notin emitted => memory'[a] = 0
           /\ (/\ pc = "assembler" /\ pc' = "assembler"
               /\ exprIdx < Len(expressions))
              => LET e == expressions[exprIdx + 1]
                 IN /\ IsOrg(e) => /\ org' = e.args[1][1].num
                                   /\ memory' = memory
                    /\ IsEmitter(e) =>
                          /\ Len(emitLog') = Len(emitLog) + 1
                          /\ emitLog'[Len(emitLog')].address = org
                          /\ memory' =
                               IF org < Len(memory)
                               THEN [memory EXCEPT ![org + 1] = emitLog'[Len(emitLog')].number]
                               ELSE Append(memory, emitLog'[Len(emitLog')].number)
                    /\ ~IsOrg(e) /\ ~IsEmitter(e) /\ ~IsTimes(e) => org' = org
      ]_vars

\* #ORG moved the first write: the returned image has its only non-zero
\* cells at addresses >= 2 and the first emit went to address 2
C6_Witness ==
    /\ pc = "done"
    /\ Len(emitLog) > 0
    /\ emitLog[1].address = 2
    /\ memory[3] # 0
    /\ memory[1] = 0
    /\ memory[2] = 0
    /\ Len(relocVals) > 0
    /\ relocVals[1].kind = "value"
    /\ relocVals[1].val > 0

\* C7: every fatal error reaches the caller with a source line number.
C7_ErrorsCarryLine == pc = "error" => error.hasLine

\* C8: every instruction or directive expression the parser returns has as
\* many arguments as its arity, each a non-empty token sequence.
C8_ArgLists ==
    Parsed =>
      \A i \in 1..Len(expressions) :
         LET e == expressions[i]
         IN e.type \in {E_INSTRUCTION, E_DIRECTIVE} =>
               /\ Len(e.args) = (IF e.type = E_INSTRUCTION
                                 THEN INSTRUCTION_ARG_LENGTHS[e.num + 1]
                                 ELSE DIRECTIVE_ARG_LENGTHS[e.num + 1])
               /\ \A k \in 1..Len(e.args) : Len(e.args[k]) > 0

\* C9: lexer gives the same result for a text and for the text with its
\* letters in the other case (here: all upper-cased): the same tokens, or a
\* failure for both.
C9_CaseInsensitive ==
    pc # "lexer" =>
      LET r == lexer(UpperText(text))
      IN IF pc = "error" /\ error.stage = "lexer"
         THEN ~r.ok
         ELSE r.ok /\ r.tokens = tokens

\* C10: the token stream ends with a line-marker and, in what
\* parser(lexer(text)) returns, every instruction or directive expression
\* is immediately followed by a line-marker; so #TIMES repeats a
\* line-marker and emits nothing: the words emitted so far are exactly one
\* per instruction or #DV expression processed by the walk.
C10_LineMarkerFollows ==
    Parsed =>
      /\ tokens[Len(tokens)].type = T_LINENUM
      /\ \A i \in 1..Len(expressions) :
            expressions[i].type \in {E_INSTRUCTION, E_DIRECTIVE} =>
               /\ i < Len(expressions)
               /\ expressions[i + 1].type = E_LINENUM
      /\ Len(emitLog) <=
            Cardinality({ i \in 1..exprIdx : IsEmitter(expressions[i]) })
      /\ pc \in {"assembler", "done"} =>
            Len(emitLog) =
               Cardinality({ i \in 1..exprIdx : IsEmitter(expressions[i]) })

\* the walk has passed a #TIMES directive with a count >= 1 and an
\* instruction after it, and the image was returned
C10_Witness ==
    /\ pc = "done"
    /\ \E i \in 1..Len(expressions) :
          /\ IsTimes(expressions[i])
          /\ tokenStreamAsNumber(expressions[i].args[1]).ok
          /\ tokenStreamAsNumber(expressions[i].args[1]).val >= 1
          /\ \E k \in (i + 1)..Len(expressions) : expressions[k].type = E_INSTRUCTION
    /\ Len(emitLog) = 1

====
